---- MODULE Spec2Model ----
(***************************************************************************)
(* scripts/export_nemo_ctc.py: export of a NeMo CTC checkpoint to ONNX for *)
(* sherpa-onnx.  The script is one top-to-bottom procedure; every          *)
(* statement group (mkdir, download, load, tokens.txt, export, metadata    *)
(* patch, report) is one step of the state machine.  A step either         *)
(* completes or raises; nothing in the script catches an exception.        *)
(*                                                                         *)
(* Text is modelled as sequences of Unicode code points, so that the       *)
(* length and the content of what is written can be compared exactly.      *)
(***************************************************************************)
EXTENDS Integers, Sequences, FiniteSets, TLC

VARIABLES
    pc,         \* the statement group the interpreter is about to execute
    run,        \* number of invocations of the script so far
    ckpt,       \* what the remote checkpoint HF_REPO/HF_FILENAME deserializes to
    nemo_path,  \* local path returned by hf_hub_download ("none" before)
    m,          \* the loaded model object (NoModel before restore_from)
    fs,         \* the output directory and the three files the script touches
    calls,      \* tokenizer APIs queried during this invocation
    log,        \* steps completed by this invocation, in order
    printed,    \* file lines of the completion report printed by this invocation
    startEmpty, \* the invocation started with no output file on disk
    snap,       \* the directory as the first complete invocation left it
    patched     \* metadata patches applied to model.onnx since it was exported

vars == <<pc, run, ckpt, nemo_path, m, fs, calls, log, printed, startEmpty, snap, patched>>

---------------------------------------------------------------------------
(* Bounds of the model. *)

MaxVocab == 3
MaxRuns == 2
MaxPatches == 3

---------------------------------------------------------------------------
(* Text helpers. *)

\* " " and "\n" inside the f-strings of the write calls
SP == <<32>>
NL == <<10>>

\* the literal "<blk>"
BLK == <<60, 98, 108, 107, 62>>

\* the literal assigned at line 59 as it stands in the file:
\* U+201A U+00F1 U+00C5 (three code points)
LINE59_LITERAL == <<8218, 241, 197>>

\* str(i) of a non-negative int: its decimal digits
RECURSIVE Dec(_)
Dec(n) == IF n < 10 THEN <<48 + n>> ELSE Dec(n \div 10) \o <<48 + (n % 10)>>

\* sequences over S of length at most n
SeqUpTo(S, n) == UNION {[1..k -> S] : k \in 0..n}

---------------------------------------------------------------------------
(* The checkpoints the script may be handed. *)

\* token texts of the tokenizer: "a", " ", "c"
TokenTexts == {<<97>>, <<32>>, <<99>>}

\* entries of cfg.labels: "x", "y", " "
LabelTexts == {<<120>>, <<121>>, <<32>>}

\* "per_feature"
PER_FEATURE == <<112, 101, 114, 95, 102, 101, 97, 116, 117, 114, 101>>

NoTokenizer == {[attr |-> "absent", table |-> <<>>], [attr |-> "none", table |-> <<>>]}

Tokenizers == {[attr |-> "obj", table |-> t] : t \in SeqUpTo(TokenTexts, MaxVocab)}

NormalizeCfg == {[present |-> FALSE, value |-> <<>>], [present |-> TRUE, value |-> PER_FEATURE]}

SubsamplingCfg == {[present |-> FALSE, value |-> 0], [present |-> TRUE, value |-> 8]}

Models ==
    {[loaded |-> TRUE, tokenizer |-> t, labels |-> l, normalize |-> n,
      subsampling |-> s, large |-> g] :
        t \in NoTokenizer, l \in SeqUpTo(LabelTexts, MaxVocab),
        n \in NormalizeCfg, s \in SubsamplingCfg, g \in BOOLEAN}
    \cup
    {[loaded |-> TRUE, tokenizer |-> t, labels |-> <<>>, normalize |-> n,
      subsampling |-> s, large |-> g] :
        t \in Tokenizers, n \in NormalizeCfg, s \in SubsamplingCfg, g \in BOOLEAN}

NoModel == [loaded |-> FALSE]

---------------------------------------------------------------------------
(* The file system under output_dir. *)

NoFile == [exists |-> FALSE, data |-> <<>>]
NoOnnx == [exists |-> FALSE, valid |-> FALSE, meta |-> <<>>]

\* a model.onnx cut short by a fault while it was being written
CorruptOnnx == [exists |-> TRUE, valid |-> FALSE, meta |-> <<>>]

EmptyFs == [dir |-> FALSE, tokens |-> NoFile, onnx |-> NoOnnx, onnx_data |-> FALSE]

NoFiles(d) == ~d.tokens.exists /\ ~d.onnx.exists /\ ~d.onnx_data

\* what a step leaves behind: whether it completed, the directory, the
\* tokenizer APIs it queried
Outcome(ok, d, q) == [ok |-> ok, fs |-> d, calls |-> q]

---------------------------------------------------------------------------
(* output_dir.mkdir(parents=True, exist_ok=True) *)

\* Path.mkdir: FileExistsError when the directory exists and exist_ok is
\* false; otherwise the directory exists afterwards.  Files already in the
\* directory are not touched.  An OSError (permissions, read-only volume)
\* can only stop the creation of a directory that is not there yet.
PathMkdir(d, exist_ok) ==
    IF d.dir
    THEN IF exist_ok THEN {Outcome(TRUE, d, {})} ELSE {Outcome(FALSE, d, {})}
    ELSE {Outcome(TRUE, [d EXCEPT !.dir = TRUE], {}), Outcome(FALSE, d, {})}

MkdirOutcomes(d) == PathMkdir(d, TRUE)

---------------------------------------------------------------------------
(* Vocabulary emission. *)

\* the test without its second half: hasattr(m, 'tokenizer') alone
HasTokenizerAttrOnly(mdl) == mdl.tokenizer.attr # "absent"

\* hasattr(m, 'tokenizer') and m.tokenizer is not None
HasTokenizer(mdl) == mdl.tokenizer.attr # "absent" /\ mdl.tokenizer.attr # "none"

\* m.tokenizer.vocab_size
VocabSize(tok) == Len(tok.table)

\* m.tokenizer.ids_to_tokens([i])[0]
IdsToTokens(tok, i) == tok.table[i + 1]

\* the token as written: a token that is exactly " " is replaced by the
\* literal of line 59
SherpaToken(token) == IF token = SP THEN LINE59_LITERAL ELSE token

\* f"{token} {i}\n"
TokenLine(token, i) == token \o SP \o Dec(i) \o NL

\* f"<blk> {n}\n"
BlkLine(n) == BLK \o SP \o Dec(n) \o NL

\* what the loop of lines 55-60 has written after k iterations
RECURSIVE BpeLoop(_, _)
BpeLoop(tok, k) ==
    IF k = 0 THEN <<>>
    ELSE BpeLoop(tok, k - 1) \o TokenLine(SherpaToken(IdsToTokens(tok, k - 1)), k - 1)

\* the label loop numbering from 1, as enumerate(labels, 1) would
RECURSIVE LabelLoopFrom1(_, _)
LabelLoopFrom1(labels, k) ==
    IF k = 0 THEN <<>>
    ELSE LabelLoopFrom1(labels, k - 1) \o TokenLine(labels[k], k)

\* what the loop of lines 67-68 has written after k iterations
RECURSIVE LabelLoop(_, _)
LabelLoop(labels, k) ==
    IF k = 0 THEN <<>>
    ELSE LabelLoop(labels, k - 1) \o TokenLine(labels[k], k - 1)

\* open(tokens_path, "a"): what the file held is kept
OpenA(old) == old

\* open(tokens_path, "w"): the file exists and is empty, whatever it held
OpenW(old) == <<>>

\* the file once the with-block has written `text` after opening it
Written(old, text) == [exists |-> TRUE, data |-> OpenW(old.data) \o text]

\* lines 52-61.  vocab_size is read first (AttributeError on a tokenizer
\* that is None); a fault before open() leaves the file as it was, a fault
\* in the loop leaves the lines written so far.
BpeBranch(d, mdl) ==
    IF mdl.tokenizer.attr # "obj"
    THEN {Outcome(FALSE, d, {"vocab_size"})}
    ELSE LET vocab_size == VocabSize(mdl.tokenizer)
             q(k) == IF k > 0 THEN {"vocab_size", "ids_to_tokens"} ELSE {"vocab_size"}
         IN  {Outcome(TRUE,
                      [d EXCEPT !.tokens = Written(d.tokens,
                           BpeLoop(mdl.tokenizer, vocab_size) \o BlkLine(vocab_size))],
                      q(vocab_size))}
             \cup {Outcome(FALSE, d, {"vocab_size"})}
             \cup {Outcome(FALSE,
                           [d EXCEPT !.tokens = Written(d.tokens, BpeLoop(mdl.tokenizer, k))],
                           q(k)) : k \in 0..vocab_size}

\* lines 64-69
LabelBranch(d, mdl) ==
    LET labels == mdl.labels
    IN  {Outcome(TRUE,
                 [d EXCEPT !.tokens = Written(d.tokens,
                      LabelLoop(labels, Len(labels)) \o BlkLine(Len(labels)))],
                 {})}
        \cup {Outcome(FALSE, d, {})}
        \cup {Outcome(FALSE,
                      [d EXCEPT !.tokens = Written(d.tokens, LabelLoop(labels, k))],
                      {}) : k \in 0..Len(labels)}

\* lines 51-69
TokensOutcomes(d, mdl) ==
    IF HasTokenizer(mdl) THEN BpeBranch(d, mdl) ELSE LabelBranch(d, mdl)

---------------------------------------------------------------------------
(* m.export(str(model_path)) *)

\* an exporter that removes tokens.txt when it faults
ExportOutcomesCleanup(d, mdl) ==
    {Outcome(TRUE,
             [d EXCEPT !.onnx = [exists |-> TRUE, valid |-> TRUE, meta |-> <<>>],
                       !.onnx_data = d.onnx_data \/ mdl.large],
             {})}
    \cup {Outcome(FALSE, [d EXCEPT !.tokens = NoFile], {})}

\* The exporter serializes the graph into a new model.onnx, replacing any
\* file of that name; a model too large for one file also gets
\* model.onnx_data.  A fault leaves the old file or a partial new one.
ExportOutcomes(d, mdl) ==
    {Outcome(TRUE,
             [d EXCEPT !.onnx = [exists |-> TRUE, valid |-> TRUE, meta |-> <<>>],
                       !.onnx_data = d.onnx_data \/ mdl.large],
             {})}
    \cup {Outcome(FALSE, d, {}), Outcome(FALSE, [d EXCEPT !.onnx = CorruptOnnx], {})}

---------------------------------------------------------------------------
(* Metadata patch. *)

\* the raw count, without the blank token
MetaVocabSizeRaw(mdl) ==
    IF HasTokenizer(mdl) THEN VocabSize(mdl.tokenizer) ELSE Len(mdl.labels)

\* lines 83-86: the vocabulary size including the blank token
MetaVocabSize(mdl) ==
    IF HasTokenizer(mdl) THEN VocabSize(mdl.tokenizer) + 1 ELSE Len(mdl.labels) + 1

\* the tokenizer APIs lines 83-86 query
MetaQueries(mdl) == IF HasTokenizer(mdl) THEN {"vocab_size"} ELSE {}

\* str(m.preprocessor._cfg.get("normalize", ""))
NormalizeType(mdl) == IF mdl.normalize.present THEN mdl.normalize.value ELSE <<>>

\* str(m.encoder._cfg.get("subsampling_factor")): "None" when absent
SubsamplingFactorNoDefault(mdl) ==
    IF mdl.subsampling.present THEN Dec(mdl.subsampling.value) ELSE <<78, 111, 110, 101>>

\* str(m.encoder._cfg.get("subsampling_factor", 4))
SubsamplingFactor(mdl) ==
    Dec(IF mdl.subsampling.present THEN mdl.subsampling.value ELSE 4)

\* "EncDecCTCModelBPE"
MODEL_TYPE ==
    <<69, 110, 99, 68, 101, 99, 67, 84, 67, 77, 111, 100, 101, 108, 66, 80, 69>>

\* the dict of lines 93-99, in insertion order
Metadata(mdl) ==
    << [key |-> "vocab_size", value |-> Dec(MetaVocabSize(mdl))],
       [key |-> "normalize_type", value |-> NormalizeType(mdl)],
       [key |-> "subsampling_factor", value |-> SubsamplingFactor(mdl)],
       [key |-> "model_type", value |-> MODEL_TYPE],
       [key |-> "version", value |-> Dec(1)] >>

\* a patch that replaces the entries of keys already present
AddPropsGuarded(props, metadata) ==
    SelectSeq(props, LAMBDA e : \A i \in 1..Len(metadata) : metadata[i].key # e.key)
        \o metadata

\* lines 101-104: one metadata_props.add() per item of the dict
AddProps(props, metadata) == props \o metadata

\* lines 80-106.  onnx.load raises on a missing or unreadable file; the
\* tokenizer of a model whose tokenizer is None cannot be asked its size; a
\* fault in onnx.save leaves the old file or a partial new one.
PatchOutcomes(d, mdl) ==
    IF ~(d.onnx.exists /\ d.onnx.valid)
    THEN {Outcome(FALSE, d, {})}
    ELSE IF HasTokenizer(mdl) /\ mdl.tokenizer.attr # "obj"
    THEN {Outcome(FALSE, d, MetaQueries(mdl))}
    ELSE {Outcome(TRUE,
                  [d EXCEPT !.onnx.meta = AddProps(d.onnx.meta, Metadata(mdl))],
                  MetaQueries(mdl))}
         \cup {Outcome(FALSE, d, {}), Outcome(FALSE, d, MetaQueries(mdl)),
               Outcome(FALSE, [d EXCEPT !.onnx = CorruptOnnx], MetaQueries(mdl))}

---------------------------------------------------------------------------
(* Completion report. *)

\* a report that names model.onnx_data without looking for it
ReportLinesAll(d) == <<"model.onnx", "tokens.txt", "model.onnx_data">>

\* lines 110-113: the two unconditional file lines, then model.onnx_data
\* when (output_dir / "model.onnx_data").exists()
ReportLines(d) ==
    <<"model.onnx", "tokens.txt">>
        \o (IF d.onnx_data THEN <<"model.onnx_data">> ELSE <<>>)

---------------------------------------------------------------------------
(* The script as a state machine. *)

\* a fault that is swallowed: control goes on to the next statement
AbortSwallowed(next) == next

\* Where control goes when a statement raises: the script has no
\* try/except, so the interpreter prints the traceback and exits.
Abort(next) == "failed"

\* the end of a step with outcome o
Finish(step, next, o) ==
    /\ fs' = o.fs
    /\ calls' = calls \cup o.calls
    /\ pc' = IF o.ok THEN next ELSE Abort(next)
    /\ log' = IF o.ok THEN Append(log, step) ELSE log

Init ==
    /\ pc = "mkdir"
    /\ run = 1
    /\ ckpt \in Models
    /\ nemo_path = "none"
    /\ m = NoModel
    /\ fs = EmptyFs
    /\ calls = {}
    /\ log = <<>>
    /\ printed = <<>>
    /\ startEmpty = TRUE
    /\ snap = [taken |-> FALSE, run |-> 0, fs |-> EmptyFs]
    /\ patched = 0

\* lines 35-36
Mkdir ==
    /\ pc = "mkdir"
    /\ \E o \in MkdirOutcomes(fs) : Finish("mkdir", "download", o)
    /\ UNCHANGED <<run, ckpt, nemo_path, m, printed, startEmpty, snap, patched>>

\* lines 39-41: hf_hub_download returns the cached path or raises
Download ==
    /\ pc = "download"
    /\ \E ok \in BOOLEAN :
          /\ Finish("download", "load", Outcome(ok, fs, {}))
          /\ nemo_path' = IF ok THEN "cached" ELSE nemo_path
    /\ UNCHANGED <<run, ckpt, m, printed, startEmpty, snap, patched>>

\* lines 43-45: restore_from(nemo_path) and eval(), or a fault in them
Load ==
    /\ pc = "load"
    /\ nemo_path = "cached"
    /\ \E ok \in BOOLEAN :
          /\ Finish("load", "tokens", Outcome(ok, fs, {}))
          /\ m' = IF ok THEN ckpt ELSE m
    /\ UNCHANGED <<run, ckpt, nemo_path, printed, startEmpty, snap, patched>>

\* lines 47-69
Tokens ==
    /\ pc = "tokens"
    /\ \E o \in TokensOutcomes(fs, m) : Finish("tokens", "export", o)
    /\ UNCHANGED <<run, ckpt, nemo_path, m, printed, startEmpty, snap, patched>>

\* lines 71-74
Export ==
    /\ pc = "export"
    /\ \E o \in ExportOutcomes(fs, m) :
          /\ Finish("export", "patch", o)
          /\ patched' = IF o.fs.onnx = fs.onnx /\ ~o.ok THEN patched ELSE 0
    /\ UNCHANGED <<run, ckpt, nemo_path, m, printed, startEmpty, snap>>

\* lines 76-107
Patch ==
    /\ pc = "patch"
    /\ \E o \in PatchOutcomes(fs, m) :
          /\ Finish("patch", "report", o)
          /\ patched' = IF o.ok THEN patched + 1
                        ELSE IF o.fs.onnx = fs.onnx THEN patched ELSE 0
    /\ UNCHANGED <<run, ckpt, nemo_path, m, printed, startEmpty, snap>>

\* lines 109-113
Report ==
    /\ pc = "report"
    /\ printed' = ReportLines(fs)
    /\ Finish("report", "done", Outcome(TRUE, fs, {}))
    /\ snap' = IF snap.taken THEN snap ELSE [taken |-> TRUE, run |-> run, fs |-> fs]
    /\ UNCHANGED <<run, ckpt, nemo_path, m, startEmpty, patched>>

\* the script is invoked again (uv run ...): a new process, the same
\* checkpoint constants, the directory as the last invocation left it
Rerun ==
    /\ pc \in {"done", "failed"}
    /\ run < MaxRuns
    /\ run' = run + 1
    /\ pc' = "mkdir"
    /\ nemo_path' = "none"
    /\ m' = NoModel
    /\ calls' = {}
    /\ log' = <<>>
    /\ printed' = <<>>
    /\ startEmpty' = NoFiles(fs)
    /\ UNCHANGED <<ckpt, fs, snap, patched>>

Next ==
    \/ Mkdir
    \/ Download
    \/ Load
    \/ Tokens
    \/ Export
    \/ Patch
    \/ Report
    \/ Rerun

Spec == Init /\ [][Next]_vars

---------------------------------------------------------------------------
(* The metadata patch of lines 80-106 applied over and over to one         *)
(* exported artifact.                                                      *)

InitPatch ==
    /\ pc = "patch"
    /\ run = 1
    /\ ckpt \in Models
    /\ nemo_path = "cached"
    /\ m = ckpt
    /\ fs = [dir |-> TRUE, tokens |-> NoFile,
             onnx |-> [exists |-> TRUE, valid |-> TRUE, meta |-> <<>>],
             onnx_data |-> ckpt.large]
    /\ calls = {}
    /\ log = <<>>
    /\ printed = <<>>
    /\ startEmpty = TRUE
    /\ snap = [taken |-> FALSE, run |-> 0, fs |-> EmptyFs]
    /\ patched = 0

PatchAgain ==
    /\ pc = "patch"
    /\ patched < MaxPatches
    /\ \E o \in PatchOutcomes(fs, m) :
          /\ fs' = o.fs
          /\ calls' = calls \cup o.calls
          /\ pc' = IF o.ok THEN "patch" ELSE Abort("patch")
          /\ log' = IF o.ok THEN Append(log, "patch") ELSE log
          /\ patched' = IF o.ok THEN patched + 1 ELSE patched
    /\ UNCHANGED <<run, ckpt, nemo_path, m, printed, startEmpty, snap>>

NextPatch == PatchAgain

SpecPatch == InitPatch /\ [][NextPatch]_vars

---------------------------------------------------------------------------
(* Helpers of the properties. *)

\* this invocation has completed `step`
Done(step) == \E i \in 1..Len(log) : log[i] = step

\* number of newline characters of a text
CountNL(s) == Cardinality({i \in 1..Len(s) : s[i] = 10})

\* the last newline-terminated line of a text, without its newline
LastLine(s) ==
    LET before == {i \in 1..(Len(s) - 1) : s[i] = 10}
        start == IF before = {} THEN 1
                 ELSE (CHOOSE i \in before : \A j \in before : j <= i) + 1
    IN  SubSeq(s, start, Len(s) - 1)

\* the number a string of decimal digits denotes
RECURSIVE ParseDec(_)
ParseDec(ds) ==
    IF ds = <<>> THEN 0
    ELSE 10 * ParseDec(SubSeq(ds, 1, Len(ds) - 1)) + (ds[Len(ds)] - 48)

\* the concatenation of a sequence of texts
RECURSIVE Flatten(_)
Flatten(ls) == IF ls = <<>> THEN <<>> ELSE Head(ls) \o Flatten(Tail(ls))

\* the file "<text_i> i" for i = 0..n-1 in order, then "<blk> n"
VocabFile(texts) ==
    Flatten([i \in 1..(Len(texts) + 1) |->
                IF i <= Len(texts)
                THEN texts[i] \o <<32>> \o Dec(i - 1) \o <<10>>
                ELSE <<60, 98, 108, 107, 62, 32>> \o Dec(Len(texts)) \o <<10>>])

\* the values stored under `key` in a metadata list
ValuesOf(meta, key) == {meta[i].value : i \in {j \in 1..Len(meta) : meta[j].key = key}}

\* how many entries of a metadata list have `key`
KeyCount(meta, key) == Cardinality({i \in 1..Len(meta) : meta[i].key = key})

MetaKeys == <<"vocab_size", "normalize_type", "subsampling_factor", "model_type", "version">>

\* tokenizer vocabulary size, or label count when there is no tokenizer
RealVocab(mdl) == IF mdl.tokenizer.attr = "obj" THEN Len(mdl.tokenizer.table) ELSE Len(mdl.labels)

---------------------------------------------------------------------------
(* Vocabulary emission. *)

\* C1: once the tokenizer branch has written tokens.txt, the file is
\* "<token_i> i" for every id in increasing order, a token that is exactly
\* one space written as the single character U+2581, then "<blk> N"; for the
\* token texts "a", " ", "c" it is a 0 / U+2581 1 / c 2 / <blk> 3.
C1_TokenizerFile ==
    (Done("tokens") /\ HasTokenizer(m)) =>
        LET table == m.tokenizer.table
            shown == [i \in 1..Len(table) |->
                         IF table[i] = <<32>> THEN <<9601>> ELSE table[i]]
        IN  /\ fs.tokens.exists
            /\ fs.tokens.data = VocabFile(shown)
            /\ CountNL(fs.tokens.data) = Len(table) + 1
            /\ (table = << <<97>>, <<32>>, <<99>> >> =>
                   fs.tokens.data = <<97, 32, 48, 10, 9601, 32, 49, 10, 99, 32, 50, 10,
                                      60, 98, 108, 107, 62, 32, 51, 10>>)

\* C2: once the label branch has written tokens.txt, the file is
\* "<label_i> i" for every index of the label list in list order, labels
\* verbatim, then "<blk> M": M+1 newline-terminated lines; for the labels
\* "x", "y" it is x 0 / y 1 / <blk> 2.
C2_LabelFile ==
    (Done("tokens") /\ ~HasTokenizer(m)) =>
        /\ fs.tokens.exists
        /\ fs.tokens.data = VocabFile(m.labels)
        /\ CountNL(fs.tokens.data) = Len(m.labels) + 1
        /\ (m.labels = << <<120>>, <<121>> >> =>
               fs.tokens.data = <<120, 32, 48, 10, 121, 32, 49, 10,
                                  60, 98, 108, 107, 62, 32, 50, 10>>)

\* a label list "x", "y" has been written as x 0 / y 1 / <blk> 2
C2_Witness ==
    /\ pc = "export"
    /\ m.tokenizer.attr = "absent"
    /\ m.labels = << <<120>>, <<121>> >>
    /\ fs.tokens.data = <<120, 32, 48, 10, 121, 32, 49, 10, 60, 98, 108, 107, 62, 32, 50, 10>>

\* C3: once the metadata patch has completed, every value stored under
\* vocab_size is the decimal string of (tokenizer size, or label count
\* without a tokenizer) + 1; that number is the number of lines of the
\* tokens.txt of the same invocation and one more than the id on its
\* "<blk>" line.
C3_VocabSizeMeta ==
    Done("patch") =>
        LET stored == ValuesOf(fs.onnx.meta, "vocab_size")
            last == LastLine(fs.tokens.data)
        IN  /\ stored = {Dec(RealVocab(m) + 1)}
            /\ \A v \in stored :
                  /\ ParseDec(v) = CountNL(fs.tokens.data)
                  /\ SubSeq(last, 1, 6) = <<60, 98, 108, 107, 62, 32>>
                  /\ ParseDec(v) = ParseDec(SubSeq(last, 7, Len(last))) + 1

\* a tokenizer of three tokens ends with vocab_size "4" and the line <blk> 3
C3_Witness ==
    /\ pc = "done"
    /\ m.tokenizer.attr = "obj"
    /\ Len(m.tokenizer.table) = 3
    /\ ValuesOf(fs.onnx.meta, "vocab_size") = {<<52>>}
    /\ LastLine(fs.tokens.data) = <<60, 98, 108, 107, 62, 32, 51>>

\* C4: with a tokenizer attribute that is absent or None, no tokenizer API
\* is ever queried, tokens.txt is the label list's file and vocab_size is
\* the label count + 1.
C4_LabelBranchOnly ==
    (m.loaded /\ m.tokenizer.attr \in {"absent", "none"}) =>
        /\ calls = {}
        /\ Done("tokens") => fs.tokens.data = VocabFile(m.labels)
        /\ Done("patch") =>
              ValuesOf(fs.onnx.meta, "vocab_size") = {Dec(Len(m.labels) + 1)}

\* a model whose tokenizer is None went through both branching steps
C4_Witness ==
    /\ pc = "done"
    /\ m.tokenizer.attr = "none"
    /\ Len(m.labels) = 2
    /\ calls = {}

---------------------------------------------------------------------------
(* Order of the steps and faults. *)

StepOrder == <<"mkdir", "download", "load", "tokens", "export", "patch", "report">>

\* C5 (state part): the steps completed so far are an initial segment of
\* the fixed order, the step about to run is the next one of that order,
\* and the completion report is printed only by an invocation that
\* completed all seven steps.
C5_Prefix ==
    /\ Len(log) <= Len(StepOrder)
    /\ \A i \in 1..Len(log) : log[i] = StepOrder[i]
    /\ pc \notin {"done", "failed"} => pc = StepOrder[Len(log) + 1]
    /\ pc = "done" <=> log = StepOrder
    /\ printed # <<>> => log = StepOrder

\* C5 (step part): within one invocation a step either completes, which
\* adds exactly that step to the completed ones, or faults, which ends the
\* invocation with nothing more completed; after a fault nothing happens
\* but a new invocation of the script.
C5_Step ==
    /\ run' = run =>
          \/ log' = Append(log, pc) /\ pc' # "failed"
          \/ log' = log /\ pc' = "failed" /\ printed' = printed
    /\ pc = "failed" => run' = run + 1 /\ fs' = fs

\* C5: the steps run in the strict order mkdir, download, load, tokens,
\* export, patch, report; a fault in a step ends the invocation at once, no
\* later step runs, nothing is retried, and the report needs every step.
C5_StrictOrder == [](C5_Prefix) /\ [][C5_Step]_vars

\* the export faulted after four completed steps and nothing followed
C5_Witness ==
    /\ pc = "failed"
    /\ log = <<"mkdir", "download", "load", "tokens">>
    /\ printed = <<>>

---------------------------------------------------------------------------
(* What a failed invocation leaves behind. *)

OkFs(outcomes) == {o.fs : o \in {x \in outcomes : x.ok}}
FailedFs(outcomes) == {o.fs : o \in {x \in outcomes : ~x.ok}}

\* The directories an invocation that starts on d0 and loads mdl can end
\* in when one of its steps faults: the steps of the script composed in
\* their order, each applied to what the completed ones left.
FailedEnds(d0, mdl) ==
    LET afterMkdir == OkFs(MkdirOutcomes(d0))
        tokens == UNION {TokensOutcomes(d, mdl) : d \in afterMkdir}
        export == UNION {ExportOutcomes(d, mdl) : d \in OkFs(tokens)}
        patch == UNION {PatchOutcomes(d, mdl) : d \in OkFs(export)}
    IN  FailedFs(MkdirOutcomes(d0)) \cup afterMkdir \cup FailedFs(tokens)
            \cup FailedFs(export) \cup FailedFs(patch)

\* C6 as amended: nothing is rolled back: after a fault the tokens.txt and
\* the model.onnx of the steps that completed are still on disk; an
\* invocation that started without output files and failed ends in one of
\* FailedEnds, and never with model.onnx on disk but tokens.txt missing.
C6_NoRollback ==
    pc = "failed" =>
        /\ Done("tokens") =>
              /\ fs.tokens.exists
              /\ CountNL(fs.tokens.data) = RealVocab(m) + 1
              /\ LastLine(fs.tokens.data) = <<60, 98, 108, 107, 62, 32>> \o Dec(RealVocab(m))
        /\ Done("export") => fs.onnx.exists
        /\ startEmpty =>
              /\ fs \in FailedEnds(EmptyFs, ckpt)
                        \cup FailedEnds([EmptyFs EXCEPT !.dir = TRUE], ckpt)
              /\ ~(fs.onnx.exists /\ ~fs.tokens.exists)

\* a failed invocation on an empty directory left tokens.txt, complete,
\* and no model.onnx
C6_Witness ==
    /\ pc = "failed"
    /\ startEmpty
    /\ Done("tokens")
    /\ fs.tokens.exists
    /\ ~fs.onnx.exists

\* C6 as stated: an invocation that starts on an empty output directory can
\* fail with tokens.txt written and model.onnx missing, and can fail with
\* model.onnx written and tokens.txt missing.
C6_EitherFileAlone ==
    (pc = "mkdir" /\ startEmpty) =>
        /\ \E e \in FailedEnds(fs, ckpt) : e.tokens.exists /\ ~e.onnx.exists
        /\ \E e \in FailedEnds(fs, ckpt) : e.onnx.exists /\ ~e.tokens.exists

---------------------------------------------------------------------------
(* Metadata, reruns, report. *)

\* C7: after an invocation that completed, model.onnx carries exactly five
\* metadata entries, the keys vocab_size, normalize_type,
\* subsampling_factor, model_type, version once each, every value a string;
\* model_type is "EncDecCTCModelBPE" and version "1" in both branches;
\* normalize_type is "" and subsampling_factor "4" when the configuration
\* lacks them.
C7_FiveEntries ==
    pc = "done" =>
        LET meta == fs.onnx.meta
        IN  /\ patched = 1
            /\ Len(meta) = 5
            /\ \A i \in 1..5 : KeyCount(meta, MetaKeys[i]) = 1
            /\ \A i \in 1..Len(meta) : meta[i].value \in Seq(Nat)
            /\ ValuesOf(meta, "model_type") =
                  {<<69, 110, 99, 68, 101, 99, 67, 84, 67, 77, 111, 100, 101, 108, 66, 80, 69>>}
            /\ ValuesOf(meta, "version") = {<<49>>}
            /\ ~m.normalize.present => ValuesOf(meta, "normalize_type") = {<<>>}
            /\ m.normalize.present => ValuesOf(meta, "normalize_type") = {m.normalize.value}
            /\ ~m.subsampling.present => ValuesOf(meta, "subsampling_factor") = {<<52>>}
            /\ m.subsampling.present =>
                  ValuesOf(meta, "subsampling_factor") = {Dec(m.subsampling.value)}

\* a label-list model without either configuration value completed
C7_Witness ==
    /\ pc = "done"
    /\ ~HasTokenizer(m)
    /\ ~m.normalize.present
    /\ ~m.subsampling.present
    /\ Len(fs.onnx.meta) = 5

\* C8: an invocation on a directory that exists and holds the files of an
\* earlier complete invocation is not stopped by them: mkdir cannot fail
\* and changes nothing, and when the invocation completes the directory is
\* exactly as the first complete invocation left it (tokens.txt and
\* model.onnx replaced, not appended to).
C8_RerunIdempotent ==
    /\ (pc = "mkdir" /\ fs.dir) => MkdirOutcomes(fs) = {Outcome(TRUE, fs, {})}
    /\ (pc = "done" /\ snap.taken) => fs = snap.fs

\* a second invocation completed on the directory the first complete one left
C8_Witness ==
    /\ pc = "done"
    /\ run = 2
    /\ snap.taken
    /\ snap.run = 1
    /\ fs.tokens.exists
    /\ Len(fs.onnx.meta) = 5

\* C9: the report names each of model.onnx, tokens.txt and model.onnx_data
\* exactly when the file is on disk at report time; a missing
\* model.onnx_data only suppresses its line.
C9_ReportMatchesDisk ==
    pc = "done" =>
        LET lines == {printed[i] : i \in 1..Len(printed)}
        IN  /\ "model.onnx" \in lines <=> fs.onnx.exists
            /\ "tokens.txt" \in lines <=> fs.tokens.exists
            /\ "model.onnx_data" \in lines <=> fs.onnx_data
            /\ Len(printed) = Cardinality(lines)

\* a report without the model.onnx_data line, the file being absent
C9_Witness ==
    /\ pc = "done"
    /\ ~fs.onnx_data
    /\ printed = <<"model.onnx", "tokens.txt">>

\* C10: the patch has no idempotence guard: an artifact that already
\* carries the entries can be patched again, and after k patches of one
\* exported artifact it holds 5k entries, each key k times, the entries of
\* the earlier patches unchanged in their places.
C10_Duplicates ==
    (fs.onnx.exists /\ fs.onnx.valid) =>
        LET meta == fs.onnx.meta
        IN  /\ Len(meta) = 5 * patched
            /\ \A i \in 1..5 : KeyCount(meta, MetaKeys[i]) = patched
            /\ \A i \in 1..Len(meta) : meta[i].key = MetaKeys[((i - 1) % 5) + 1]
            /\ \A i \in 6..Len(meta) : meta[i] = meta[i - 5]
            /\ pc = "patch" => \E o \in PatchOutcomes(fs, m) : o.ok

\* the artifact after two patches: ten entries
C10_Witness ==
    /\ pc = "patch"
    /\ patched = 2
    /\ Len(fs.onnx.meta) = 10
    /\ KeyCount(fs.onnx.meta, "vocab_size") = 2

====
